---- MODULE Spec2Model ----
(***************************************************************************)
(* Model of send_email.py: the "Send Emails" handler reads the first       *)
(* worksheet, locates the header row, projects the rows below it into      *)
(* contact records, logs in to SMTP and then, per record, skips or sends   *)
(* and writes "Sent" / "Failed" back to the sheet.                         *)
(*                                                                         *)
(* Text is a sequence of one-character strings, so that strip(), lower()   *)
(* and replace() are computed and not assumed.  Column indices are         *)
(* 0-based as in the source (cell i of a row is row[i + 1]); row numbers   *)
(* are 1-based as in the source.                                           *)
(***************************************************************************)
EXTENDS Integers, Sequences, FiniteSets, TLC

(* ------------------------------ bounds -------------------------------- *)
MaxRows == 3      \* rows of a sheet a run starts from
MaxRuns == 2      \* clicks of the Send button in SpecRerun

(* ------------------------------- text --------------------------------- *)
Whitespace == {" ", "\t"}

ToLower == [c \in {"A", "B", "C", "D", "E", "F", "G", "H", "I", "J", "K", "L", "M",
                    "N", "O", "P", "Q", "R", "S", "T", "U", "V", "W", "X", "Y", "Z"} |->
              CASE c = "A" -> "a" [] c = "B" -> "b" [] c = "C" -> "c"
                [] c = "D" -> "d" [] c = "E" -> "e" [] c = "F" -> "f"
                [] c = "G" -> "g" [] c = "H" -> "h" [] c = "I" -> "i"
                [] c = "J" -> "j" [] c = "K" -> "k" [] c = "L" -> "l"
                [] c = "M" -> "m" [] c = "N" -> "n" [] c = "O" -> "o"
                [] c = "P" -> "p" [] c = "Q" -> "q" [] c = "R" -> "r"
                [] c = "S" -> "s" [] c = "T" -> "t" [] c = "U" -> "u"
                [] c = "V" -> "v" [] c = "W" -> "w" [] c = "X" -> "x"
                [] c = "Y" -> "y" [] c = "Z" -> "z"]

LowerChar(c) == IF c \in DOMAIN ToLower THEN ToLower[c] ELSE c

Lower(s) == [k \in 1..Len(s) |-> LowerChar(s[k])]

RECURSIVE LStrip(_)
LStrip(s) == IF s = <<>> THEN s
             ELSE IF Head(s) \in Whitespace THEN LStrip(Tail(s)) ELSE s

RECURSIVE RStrip(_)
RStrip(s) == IF s = <<>> THEN s
             ELSE IF s[Len(s)] \in Whitespace THEN RStrip(SubSeq(s, 1, Len(s) - 1))
             ELSE s

Strip(s) == RStrip(LStrip(s))

StartsWith(s, old) == /\ Len(old) <= Len(s)
                      /\ SubSeq(s, 1, Len(old)) = old

RECURSIVE Replace(_, _, _)
Replace(s, old, new) ==
    IF s = <<>> THEN <<>>
    ELSE IF StartsWith(s, old)
         THEN new \o Replace(SubSeq(s, Len(old) + 1, Len(s)), old, new)
         ELSE <<Head(s)>> \o Replace(Tail(s), old, new)

(* literals of the source *)
sName == <<"n", "a", "m", "e">>
sEmail == <<"e", "m", "a", "i", "l">>
sStatus == <<"s", "t", "a", "t", "u", "s">>
sBusinessName == <<"b", "u", "s", "i", "n", "e", "s", "s", " ", "n", "a", "m", "e">>
sSent == <<"s", "e", "n", "t">>
SentLit == <<"S", "e", "n", "t">>
FailedLit == <<"F", "a", "i", "l", "e", "d">>
NameToken == <<"{", "n", "a", "m", "e", "}">>
BusinessToken == <<"{", "b", "u", "s", "i", "n", "e", "s", "s", "}">>
Empty == <<>>

(* --------------------------- sheet contents --------------------------- *)
cName == <<"N", "a", "m", "e">>
cNameLoud == <<" ", "N", "A", "M", "E", " ">>
cEmail == <<"E", "m", "a", "i", "l">>
cEmailLow == <<"e", "m", "a", "i", "l", " ">>
cStatus == <<"S", "t", "a", "t", "u", "s">>
cBusiness == <<"B", "u", "s", "i", "n", "e", "s", "s", " ", "N", "a", "m", "e">>
cBob == <<"B", "o", "b">>
cAmy == <<" ", "A", "m", "y">>
cAddrB == <<"b", "@", "x">>
cAddrA == <<"a", "@", "x", " ">>
cBlank == <<" ">>
cSentLoud == <<" ", "S", "E", "N", "T", " ">>
cAcme == <<"A", "c", "m", "e">>

RowPool == {
    <<cName, cEmail, cStatus>>,              \* header with a Status label
    <<cEmailLow, cNameLoud>>,                \* header, no Status, other order
    <<cName>>,                               \* a label but no email; too short
    <<cBob, cAddrB, Empty>>,                 \* contact, status unset
    <<cAmy, cAddrA, cSentLoud>>,             \* contact, already sent
    <<cBob, cAddrB, FailedLit>>,             \* contact, failed before
    <<cAddrA, cBob>>,                        \* short contact row
    <<cAmy, cBlank, SentLit>>                \* e-mail blank
}

RECURSIVE GridsOfLen(_)
GridsOfLen(n) == IF n = 0 THEN {<<>>}
                 ELSE {Append(g, r) : g \in GridsOfLen(n - 1), r \in RowPool}

Grids == UNION {GridsOfLen(n) : n \in 0..MaxRows}

(* ------------------------------- state -------------------------------- *)
VARIABLES
    sheet,            \* the worksheet's cells, a sequence of rows
    email_body,       \* the body template typed into the form
    all_data,         \* what get_all_values() returned to this run
    name_idx, email_idx, status_idx, business_idx, header_row_num,
    records,          \* the contact records of this run
    idx,              \* loop index (0-based) into records
    log,              \* this run's skips, send attempts, status writes, delays
    pc,               \* position of the handler
    run,              \* how many times the Send button was clicked
    delivered         \* row numbers the previous run delivered mail to

vars == <<sheet, email_body, all_data, name_idx, email_idx, status_idx,
          business_idx, header_row_num, records, idx, log, pc, run, delivered>>

(* ------------------------- the worksheet (gspread) -------------------- *)
Max(a, b) == IF a >= b THEN a ELSE b

RECURSIVE Width(_)
Width(grid) == IF grid = <<>> THEN 0 ELSE Max(Len(Head(grid)), Width(Tail(grid)))

Pad(row, n) == [k \in 1..Max(n, Len(row)) |-> IF k <= Len(row) THEN row[k] ELSE Empty]

\* get_all_values() hands the rows over as stored, or filled up to a rectangle
FillGaps(grid) == [r \in 1..Len(grid) |-> Pad(grid[r], Width(grid))]

\* update_cell(row, col, value), both 1-based; cells never written are empty
UpdateCell(grid, r, c, v) == [grid EXCEPT ![r] = [Pad(@, c) EXCEPT ![c] = v]]

(* --------------------------- scan columns ----------------------------- *)
Contains(seq, x) == \E k \in 1..Len(seq) : seq[k] = x

\* list.index(x): 0-based position of the first x
IndexOf(seq, x) ==
    (CHOOSE k \in 1..Len(seq) : seq[k] = x /\ \A j \in 1..(k - 1) : seq[j] # x) - 1

RowLower(row) == [k \in 1..Len(row) |-> Lower(Strip(row[k]))]

IsHeader(row) == Contains(RowLower(row), sName) /\ Contains(RowLower(row), sEmail)

LastHeader(grid) ==
    IF \E i \in 1..Len(grid) : IsHeader(grid[i])
    THEN CHOOSE i \in 1..Len(grid) :
            IsHeader(grid[i]) /\ \A j \in (i + 1)..Len(grid) : ~IsHeader(grid[j])
    ELSE 0

\* the row the scan breaks at (1-based, = header_row_num), 0 when it never breaks
FirstHeader(grid) ==
    IF \E i \in 1..Len(grid) : IsHeader(grid[i])
    THEN CHOOSE i \in 1..Len(grid) :
            IsHeader(grid[i]) /\ \A j \in 1..(i - 1) : ~IsHeader(grid[j])
    ELSE 0

StatusIdx(row) == IF Contains(RowLower(row), sStatus)
                  THEN IndexOf(RowLower(row), sStatus) ELSE Len(row)

BusinessIdx(row) == IF Contains(RowLower(row), sBusinessName)
                    THEN IndexOf(RowLower(row), sBusinessName) ELSE -1

(* -------------------------- prepare records --------------------------- *)
IncludeRowUnstripped(row, n, e) == Len(row) > Max(n, e) /\ row[e + 1] # Empty

IncludeRow(row, n, e) == Len(row) > Max(n, e) /\ Strip(row[e + 1]) # Empty

MakeRecord(row, i, n, e, b, s) ==
    [Name |-> row[n + 1],
     Email |-> row[e + 1],
     Business |-> IF b # -1 /\ Len(row) > b THEN row[b + 1] ELSE Empty,
     Status |-> IF Len(row) > s THEN row[s + 1] ELSE Empty,
     row_number |-> i]

RECURSIVE BuildRecords(_, _, _, _, _, _)
BuildRecords(grid, i, n, e, b, s) ==
    IF i > Len(grid) THEN <<>>
    ELSE (IF IncludeRow(grid[i], n, e)
          THEN <<MakeRecord(grid[i], i, n, e, b, s)>> ELSE <<>>)
         \o BuildRecords(grid, i + 1, n, e, b, s)

(* ----------------------------- send loop ------------------------------ *)
RecordAtReversed(recs, i) == recs[Len(recs) - i]

\* enumerate(records): the record of iteration i (0-based)
RecordAt(recs, i) == recs[i + 1]

NormalizeStatusNoStrip(status) == Lower(status)

NormalizeStatus(status) == Lower(Strip(status))

Render(template, name, business) ==
    Replace(Replace(template, NameToken, name), BusinessToken, business)

Stopped == {"stop_schema", "stop_empty", "stop_smtp", "crashed", "finished"}

(* ------------------------------ actions ------------------------------- *)
tHiName == <<"H", "i", " ">> \o NameToken

Init ==
    /\ sheet \in Grids
    /\ email_body = tHiName
    /\ all_data = <<>>
    /\ name_idx = -1 /\ email_idx = -1 /\ status_idx = -1 /\ business_idx = -1
    /\ header_row_num = 0
    /\ records = <<>>
    /\ idx = 0
    /\ log = <<>>
    /\ pc = "read"
    /\ run = 1
    /\ delivered = {}

GetAllValues ==
    /\ pc = "read"
    /\ all_data' \in {sheet, FillGaps(sheet)}
    /\ pc' = "scan"
    /\ UNCHANGED <<sheet, email_body, name_idx, email_idx, status_idx, business_idx,
                   header_row_num, records, idx, log, run, delivered>>

ScanColumns ==
    /\ pc = "scan"
    /\ LET h == FirstHeader(all_data) IN
       IF h = 0
       THEN /\ pc' = "stop_schema"
            /\ UNCHANGED <<name_idx, email_idx, status_idx, business_idx, header_row_num>>
       ELSE /\ name_idx' = IndexOf(RowLower(all_data[h]), sName)
            /\ email_idx' = IndexOf(RowLower(all_data[h]), sEmail)
            /\ status_idx' = StatusIdx(all_data[h])
            /\ business_idx' = BusinessIdx(all_data[h])
            /\ header_row_num' = h
            /\ pc' = "prepare"
    /\ UNCHANGED <<sheet, email_body, all_data, records, idx, log, run, delivered>>

PrepareRecords ==
    /\ pc = "prepare"
    /\ records' = BuildRecords(all_data, header_row_num + 1, name_idx, email_idx,
                               business_idx, status_idx)
    /\ pc' = IF records' = <<>> THEN "stop_empty" ELSE "login"
    /\ UNCHANGED <<sheet, email_body, all_data, name_idx, email_idx, status_idx,
                   business_idx, header_row_num, idx, log, run, delivered>>

ConnectSMTP ==
    /\ pc = "login"
    /\ \E ok \in BOOLEAN : pc' = IF ok THEN "loop" ELSE "stop_smtp"
    /\ UNCHANGED <<sheet, email_body, all_data, name_idx, email_idx, status_idx,
                   business_idx, header_row_num, records, idx, log, run, delivered>>

LoopHead ==
    /\ pc = "loop"
    /\ IF idx >= Len(records)
       THEN /\ pc' = "quit"
            /\ UNCHANGED <<idx, log>>
       ELSE LET record == RecordAt(records, idx) IN
            IF NormalizeStatus(record.Status) = sSent
            THEN /\ log' = Append(log, [type |-> "skip", row |-> record.row_number])
                 /\ idx' = idx + 1
                 /\ pc' = "loop"
            ELSE /\ pc' = "send"
                 /\ UNCHANGED <<idx, log>>
    /\ UNCHANGED <<sheet, email_body, all_data, name_idx, email_idx, status_idx,
                   business_idx, header_row_num, records, run, delivered>>

SendMessage ==
    /\ pc = "send"
    /\ LET record == RecordAt(records, idx) IN
       \E ok \in BOOLEAN :
          /\ log' = Append(log, [type |-> "send", row |-> record.row_number, ok |-> ok,
                                 to |-> Strip(record.Email),
                                 body |-> Render(email_body, Strip(record.Name),
                                                 Strip(record.Business))])
          /\ pc' = IF ok THEN "write_sent" ELSE "write_failed"
    /\ UNCHANGED <<sheet, email_body, all_data, name_idx, email_idx, status_idx,
                   business_idx, header_row_num, records, idx, run, delivered>>

\* update_cell inside the try: when it raises, control goes to the except branch
WriteSent ==
    /\ pc = "write_sent"
    /\ LET row_num == RecordAt(records, idx).row_number IN
       \E written \in BOOLEAN :
          IF written
          THEN /\ sheet' = UpdateCell(sheet, row_num, status_idx + 1, SentLit)
               /\ log' = Append(log, [type |-> "write", row |-> row_num,
                                      col |-> status_idx + 1, val |-> SentLit])
               /\ pc' = "sleep"
          ELSE /\ pc' = "write_failed"
               /\ UNCHANGED <<sheet, log>>
    /\ UNCHANGED <<email_body, all_data, name_idx, email_idx, status_idx,
                   business_idx, header_row_num, records, idx, run, delivered>>

\* update_cell inside the except branch: when it raises, nothing catches it
WriteFailed ==
    /\ pc = "write_failed"
    /\ LET row_num == RecordAt(records, idx).row_number IN
       \E written \in BOOLEAN :
          IF written
          THEN /\ sheet' = UpdateCell(sheet, row_num, status_idx + 1, FailedLit)
               /\ log' = Append(log, [type |-> "write", row |-> row_num,
                                      col |-> status_idx + 1, val |-> FailedLit])
               /\ pc' = "sleep"
          ELSE /\ pc' = "crashed"
               /\ UNCHANGED <<sheet, log>>
    /\ UNCHANGED <<email_body, all_data, name_idx, email_idx, status_idx,
                   business_idx, header_row_num, records, idx, run, delivered>>

Sleep ==
    /\ pc = "sleep"
    /\ log' = Append(log, [type |-> "sleep", row |-> RecordAt(records, idx).row_number])
    /\ idx' = idx + 1
    /\ pc' = "loop"
    /\ UNCHANGED <<sheet, email_body, all_data, name_idx, email_idx, status_idx,
                   business_idx, header_row_num, records, run, delivered>>

Finish ==
    /\ pc = "quit"
    /\ pc' = "finished"
    /\ UNCHANGED <<sheet, email_body, all_data, name_idx, email_idx, status_idx,
                   business_idx, header_row_num, records, idx, log, run, delivered>>

NextRun == \/ GetAllValues \/ ScanColumns \/ PrepareRecords \/ ConnectSMTP
           \/ LoopHead \/ SendMessage \/ WriteSent \/ WriteFailed \/ Sleep \/ Finish

\* the Send button is clicked again: the script runs again from the top
Rerun ==
    /\ pc \in Stopped
    /\ run < MaxRuns
    /\ run' = run + 1
    /\ delivered' = {log[p].row : p \in {q \in 1..Len(log) : log[q].type = "send" /\ log[q].ok}}
    /\ all_data' = <<>>
    /\ name_idx' = -1 /\ email_idx' = -1 /\ status_idx' = -1 /\ business_idx' = -1
    /\ header_row_num' = 0
    /\ records' = <<>>
    /\ idx' = 0
    /\ log' = <<>>
    /\ pc' = "read"
    /\ UNCHANGED <<sheet, email_body>>

Next == NextRun

\* one click on sheets of up to MaxRows rows
Spec == Init /\ [][Next]_vars

(* two clicks in succession, on sheets with a header row first *)
RerunHeaders == {<<cName, cEmail, cStatus>>, <<cEmailLow, cNameLoud>>}
RerunRows == {<<cBob, cAddrB, Empty>>, <<cAmy, cAddrA, cSentLoud>>, <<cAddrA, cBob>>}
RerunGrids == {g \in Grids : /\ Len(g) >= 1
                             /\ g[1] \in RerunHeaders
                             /\ \A i \in 2..Len(g) : g[i] \in RerunRows}

InitRerun ==
    /\ sheet \in RerunGrids
    /\ email_body = tHiName
    /\ all_data = <<>>
    /\ name_idx = -1 /\ email_idx = -1 /\ status_idx = -1 /\ business_idx = -1
    /\ header_row_num = 0
    /\ records = <<>>
    /\ idx = 0
    /\ log = <<>>
    /\ pc = "read"
    /\ run = 1
    /\ delivered = {}

NextRerun == NextRun \/ Rerun

SpecRerun == InitRerun /\ [][NextRerun]_vars

(* one click on a one-contact sheet, over templates, names and businesses *)
tHiNameReBusiness == <<"H", "i", " ">> \o NameToken \o <<",", " ", "r", "e", " ">> \o BusinessToken
tHello == <<"H", "e", "l", "l", "o">>
tNameTwice == NameToken \o <<" ">> \o NameToken
tNested == <<"{">> \o NameToken \o <<"b", "u", "s", "i", "n", "e", "s", "s", "}">>
tOpenBrace == <<"{", "n", "a", "m", "e", " ">> \o BusinessToken
Templates == {tHiName, tHiNameReBusiness, tHello, tNameTwice, tNested, tOpenBrace}
cAna == <<"A", "n", "a">>
cAnaPadded == <<" ", "A", "n", "a", " ">>
RenderNames == {cAna, cAnaPadded, Empty, BusinessToken}
RenderBusinesses == {cAcme, Empty, NameToken}
RenderGrids == {<<h, <<n, cAddrB, b>>>> :
                   h \in {<<cName, cEmail, cBusiness>>, <<cName, cEmail>>},
                   n \in RenderNames, b \in RenderBusinesses}

InitRender ==
    /\ sheet \in RenderGrids
    /\ email_body \in Templates
    /\ all_data = <<>>
    /\ name_idx = -1 /\ email_idx = -1 /\ status_idx = -1 /\ business_idx = -1
    /\ header_row_num = 0
    /\ records = <<>>
    /\ idx = 0
    /\ log = <<>>
    /\ pc = "read"
    /\ run = 1
    /\ delivered = {}

SpecRender == InitRender /\ [][NextRun]_vars

(* ---------------------- vocabulary of the claims ---------------------- *)
\* the cell reads as `word` once surrounding whitespace and letter case are ignored
SameLetter(c, w) == c = w \/ (c \in DOMAIN ToLower /\ ToLower[c] = w)

Matches(cell, word) ==
    \E i \in 0..Len(cell) :
        /\ Len(cell) >= i + Len(word)
        /\ \A k \in 1..i : cell[k] \in Whitespace
        /\ \A k \in 1..Len(word) : SameLetter(cell[i + k], word[k])
        /\ \A k \in (i + Len(word) + 1)..Len(cell) : cell[k] \in Whitespace

HasLabel(row, word) == \E k \in 1..Len(row) : Matches(row[k], word)

Events(kind, r) == {p \in 1..Len(log) : log[p].type = kind /\ log[p].row = r}

RowsOf(kind) == LET only == SelectSeq(log, LAMBDA e : e.type = kind)
                IN  [k \in 1..Len(only) |-> only[k].row]

IsPrefix(a, b) == Len(a) <= Len(b) /\ \A k \in 1..Len(a) : a[k] = b[k]

\* row numbers of the records the skip rule lets through, in record order
NonSkippedRows ==
    LET open == SelectSeq(records, LAMBDA r : ~Matches(r.Status, sSent))
    IN  [k \in 1..Len(open) |-> open[k].row_number]

Scanned == pc \notin {"read", "scan"}
Prepared == pc \notin {"read", "scan", "prepare", "stop_schema"}
InLoopBody == pc \in {"send", "write_sent", "write_failed", "sleep", "crashed"}

(* ------------------------------- claims ------------------------------- *)

\* C1: when the run is executed twice in succession, no record the first run
\* delivered mail to gets a send attempt in the second run, and a second run that
\* finishes has attempted every record whose status is not "sent".
C1_RerunIdempotent ==
    run = 2 =>
        /\ \A p \in 1..Len(log) : log[p].type = "send" => log[p].row \notin delivered
        /\ pc = "finished" =>
              \A k \in 1..Len(records) :
                  ~Matches(records[k].Status, sSent)
                      => Events("send", records[k].row_number) # {}

\* C2: a failed send is not fatal: once the handler has stopped after a send
\* failed, it stopped at "All tasks finished" and every later record whose status
\* is not "sent" was attempted.
C2_FailureNonFatal ==
    \A k \in 1..Len(records) :
        (/\ pc \in Stopped
         /\ \E p \in Events("send", records[k].row_number) : ~log[p].ok)
        => /\ pc = "finished"
           /\ \A j \in (k + 1)..Len(records) :
                 ~Matches(records[j].Status, sSent)
                     => Events("send", records[j].row_number) # {}

\* C3: no record is ever attempted twice, and in a finished run every record is
\* either skipped (no attempt, no write) or has exactly one send attempt and
\* exactly one status write, at (row_number, status column), of "Sent" when the
\* attempt succeeded and of "Failed" when it failed.
C3_OneOutcomePerRecord ==
    /\ \A k \in 1..Len(records) : Cardinality(Events("send", records[k].row_number)) <= 1
    /\ pc = "finished" =>
          \A k \in 1..Len(records) :
              LET r == records[k].row_number
                  S == Events("send", r)
                  W == Events("write", r)
              IN  \/ /\ Cardinality(Events("skip", r)) = 1
                     /\ S = {} /\ W = {}
                  \/ /\ Events("skip", r) = {}
                     /\ Cardinality(S) = 1 /\ Cardinality(W) = 1
                     /\ \A p \in S, q \in W :
                           /\ log[q].col = status_idx + 1
                           /\ log[q].val = IF log[p].ok THEN SentLit ELSE FailedLit

\* C4: a record is skipped iff its stored status, trimmed and lowercased, is
\* "sent"; a skipped record has no send attempt, no status write and no delay, and
\* the loop moves on to the next record.
C4_SkipRule ==
    \A k \in 1..Len(records) :
        LET r == records[k].row_number IN
        /\ (k <= idx /\ Matches(records[k].Status, sSent))
              => /\ Cardinality(Events("skip", r)) = 1
                 /\ Events("send", r) = {} /\ Events("write", r) = {}
                 /\ Events("sleep", r) = {}
        /\ (k <= idx /\ ~Matches(records[k].Status, sSent))
              => Events("skip", r) = {} /\ Events("send", r) # {}
        /\ (k = idx + 1 /\ InLoopBody) => ~Matches(records[k].Status, sSent)
        /\ (log # <<>> /\ log[Len(log)] = [type |-> "skip", row |-> r])
              => idx = k

C4_Witness ==
    /\ pc = "finished"
    /\ \E k, j \in 1..Len(records) :
          /\ records[k].Status = cSentLoud /\ Events("skip", records[k].row_number) # {}
          /\ records[j].Status = FailedLit /\ Events("sleep", records[j].row_number) # {}

\* C5: records are attempted in source-row order; every status write follows the
\* send attempt of its record and precedes the next send attempt; so the rows
\* written in this run are always a prefix of the non-skipped records, and no row
\* of a record the loop has not reached is written.
C5_Ordering ==
    /\ IsPrefix(RowsOf("send"), NonSkippedRows)
    /\ IsPrefix(RowsOf("write"), RowsOf("send"))
    /\ Len(RowsOf("send")) <= Len(RowsOf("write")) + 1
    /\ \A q \in 1..Len(log) :
          log[q].type = "write" =>
              \E p \in 1..(q - 1) :
                  /\ log[p].type = "send" /\ log[p].row = log[q].row
                  /\ \A m \in (p + 1)..(q - 1) : log[m].type # "send"
    /\ \A p, q \in 1..Len(log) :
          (p < q /\ log[p].type = "send" /\ log[q].type = "send")
              => \E m \in (p + 1)..(q - 1) :
                    log[m].type = "write" /\ log[m].row = log[p].row
    /\ \A k \in 1..Len(records) :
          k > idx + 1 => Events("write", records[k].row_number) = {}
    /\ \A k, j \in 1..Len(records) : k < j => records[k].row_number < records[j].row_number

C5_Witness ==
    /\ pc = "crashed"
    /\ Len(RowsOf("send")) = 2
    /\ Len(RowsOf("write")) = 1
    /\ Len(NonSkippedRows) = 2

\* the row at 1-based position p passes the record filter
Qualifies(p) ==
    /\ p > header_row_num
    /\ Len(all_data[p]) >= Max(name_idx, email_idx) + 1
    /\ \E c \in 1..Len(all_data[p][email_idx + 1]) :
           all_data[p][email_idx + 1][c] \notin Whitespace

\* C6: a row strictly below the header row yields a record iff it has at least
\* max(name index, email index) + 1 cells and its email cell is not empty after
\* trimming; records keep source order, there are as many as qualifying rows, and
\* a record's row_number is the 1-based position of its row in the sheet.
C6_RecordSelection ==
    Prepared =>
        /\ \A p \in 1..Len(all_data) :
              Qualifies(p) <=> \E k \in 1..Len(records) : records[k].row_number = p
        /\ \A k, j \in 1..Len(records) : k < j => records[k].row_number < records[j].row_number
        /\ Len(records) = Cardinality({p \in 1..Len(all_data) : Qualifies(p)})
        /\ \A k \in 1..Len(records) :
              LET p == records[k].row_number IN
              /\ p \in (header_row_num + 1)..Len(all_data)
              /\ records[k].Name = all_data[p][name_idx + 1]
              /\ records[k].Email = all_data[p][email_idx + 1]

C6_Witness ==
    /\ pc = "login"
    /\ header_row_num = 1
    /\ Len(all_data) = 3
    /\ Len(all_data[2]) > Max(name_idx, email_idx)
    /\ all_data[2][email_idx + 1] = cBlank
    /\ Len(records) = 1 /\ records[1].row_number = 3

\* C7: when some row has cells that normalize to "name" and to "email", the
\* header row is the first such row and the name and email indices point at those
\* cells; when no row has both, the run halts on the missing-columns error with no
\* records, no send attempt and no status write.
C7_HeaderDetection ==
    Scanned =>
        IF \E i \in 1..Len(all_data) : HasLabel(all_data[i], sName) /\ HasLabel(all_data[i], sEmail)
        THEN /\ pc # "stop_schema"
             /\ header_row_num \in 1..Len(all_data)
             /\ \A i \in 1..Len(all_data) :
                   (HasLabel(all_data[i], sName) /\ HasLabel(all_data[i], sEmail))
                       => header_row_num <= i
             /\ name_idx \in 0..(Len(all_data[header_row_num]) - 1)
             /\ email_idx \in 0..(Len(all_data[header_row_num]) - 1)
             /\ Matches(all_data[header_row_num][name_idx + 1], sName)
             /\ Matches(all_data[header_row_num][email_idx + 1], sEmail)
        ELSE /\ pc = "stop_schema"
             /\ records = <<>>
             /\ log = <<>>

C7_Witness ==
    /\ pc = "prepare"
    /\ header_row_num = 2
    /\ Len(all_data) = 3
    /\ IsHeader(all_data[3])
    /\ name_idx = 1 /\ email_idx = 0

\* the template with its {name} and {business} tokens replaced, left to right
RECURSIVE Substituted(_, _, _)
Substituted(template, name, business) ==
    IF template = <<>> THEN <<>>
    ELSE IF StartsWith(template, NameToken)
         THEN name \o Substituted(SubSeq(template, Len(NameToken) + 1, Len(template)),
                                  name, business)
    ELSE IF StartsWith(template, BusinessToken)
         THEN business \o Substituted(SubSeq(template, Len(BusinessToken) + 1, Len(template)),
                                      name, business)
    ELSE <<Head(template)>> \o Substituted(Tail(template), name, business)

\* C8: the body of every message is the template with every {name} token of the
\* template replaced by the trimmed name and every {business} token of the
\* template replaced by the trimmed business, the rest unchanged.
C8_TemplateRendering ==
    \A p \in 1..Len(log) :
        log[p].type = "send" =>
            \E k \in 1..Len(records) :
                /\ records[k].row_number = log[p].row
                /\ log[p].body = Substituted(email_body, Strip(records[k].Name),
                                             Strip(records[k].Business))

\* C9: when the header row has no Status label, every record's status field is
\* the empty string and no record is skipped.
C9_NoStatusColumn ==
    (Prepared /\ ~HasLabel(all_data[header_row_num], sStatus))
        => /\ \A k \in 1..Len(records) : records[k].Status = Empty
           /\ \A p \in 1..Len(log) : log[p].type # "skip"

\* C10: "Failed" is written for a record only if that record's send attempt
\* raised a transport error.
C10_FailedOnlyOnTransportError ==
    \A q \in 1..Len(log) :
        (log[q].type = "write" /\ log[q].val = FailedLit)
            => \E p \in 1..(q - 1) :
                  log[p].type = "send" /\ log[p].row = log[q].row /\ ~log[p].ok

====
